---- MODULE Spec2Model ----
(***************************************************************************)
(* Referral-tracking and commission-accounting service (src/server.js).    *)
(*                                                                         *)
(* The persisted store (tables users, deposits, referral_earnings) is the  *)
(* shared state.  Every HTTP request is a process of its own; its atomic   *)
(* steps are the single SQL statements it awaits, so requests interleave   *)
(* between any two statements.  Any statement may fail, which sends the    *)
(* handler to its catch block (HTTP 500).                                  *)
(*                                                                         *)
(* Money: amounts are whole currency units; the deposit amounts drawn are  *)
(* multiples of 100, so amount * percentage / 100 is exact, as it is in    *)
(* the IEEE doubles the code computes with for these values.               *)
(***************************************************************************)
EXTENDS Integers, Sequences, FiniteSets, TLC

VARIABLES
    digest,     \* the md5 prefix of each normalized email (fixed, unknown)
    users,      \* table users, in insertion order; id = position
    deposits,   \* table deposits
    earnings,   \* table referral_earnings
    req,        \* the handlers in flight: one record per connection slot
    nreq,       \* requests accepted so far; also the logical time of NOW()
    out,        \* the response sent by the latest step, if it sent one
    credited    \* history: per earning row, how often its amount was
                \* part of a sum added to a balance

vars == <<digest, users, deposits, earnings, req, nreq, out, credited>>

----------------------------------------------------------------------------
(* Bounds                                                                  *)

MaxReq == 2                 \* requests accepted in one run

MaxInFlight == 2            \* requests in flight at the same time

Slots == 1..MaxInFlight

----------------------------------------------------------------------------
(* Strings: an email is a sequence of characters                           *)

LowerChar(ch) ==
    CASE ch = "A" -> "a"
      [] ch = "B" -> "b"
      [] ch = "C" -> "c"
      [] OTHER -> ch

toLowerCase(s) == [i \in 1..Len(s) |-> LowerChar(s[i])]

RECURSIVE trimStart(_)
trimStart(s) ==
    IF s # <<>> /\ Head(s) = " " THEN trimStart(Tail(s)) ELSE s

RECURSIVE trimEnd(_)
trimEnd(s) ==
    IF s # <<>> /\ s[Len(s)] = " " THEN trimEnd(SubSeq(s, 1, Len(s) - 1)) ELSE s

trim(s) == trimEnd(trimStart(s))

\* email.toLowerCase().trim()
Normalize(email) == trim(toLowerCase(email))

NormEmails == {<<"a">>, <<"b">>, <<"c">>, <<"d">>, <<"e">>}

\* What a caller may send as email: a, written " A", and b.  c, d and e
\* are users of the stores a run starts from and send nothing.
RawEmails == {<<" ", "A">>, <<"b">>}

NoEmail == <<>>

----------------------------------------------------------------------------
(* Referral codes                                                          *)

\* parseInt(hash.substring(0, 8), 16) is a 32-bit unsigned value, kept as
\* its two 16-bit halves (value = hi * 65536 + lo).  The values drawn are
\* 0, 5, 6, 899999, 900000, 900005 (5 and 900005 collide modulo 900000),
\* 2^31 - 1, 2^31, 4294799999 (the last value with remainder 899999) and
\* 2^32 - 1.
DigestValues ==
    {[hi |-> 0, lo |-> 0], [hi |-> 0, lo |-> 5], [hi |-> 0, lo |-> 6],
     [hi |-> 13, lo |-> 48031], [hi |-> 13, lo |-> 48032],
     [hi |-> 13, lo |-> 48037],
     [hi |-> 32767, lo |-> 65535], [hi |-> 32768, lo |-> 0],
     [hi |-> 65533, lo |-> 29311], [hi |-> 65535, lo |-> 65535]}

\* Mutant: numericHash % 1000000
Mod1000000(n) == ((((n.hi * 256) % 1000000) * 256) + n.lo) % 1000000

\* numericHash % 900000, by halves: no intermediate value leaves 31 bits.
Mod900000(n) == ((((n.hi * 256) % 900000) * 256) + n.lo) % 900000

REFERRAL_LEVELS == (1 :> 16) @@ (2 :> 3) @@ (3 :> 2)

generateReferralCode(email) == Mod900000(digest[Normalize(email)]) + 100000

\* SQL NULL / JavaScript null, for codes, ids and timestamps.
NULL == 0

\* What a caller may send as referralCode: nothing, the code of an email,
\* or a code that no email of the model derives.
RefCodeInputs ==
    {NULL, 123456} \cup {generateReferralCode(e) : e \in RawEmails}

----------------------------------------------------------------------------
(* The store: queries and statements                                       *)

SeqToSet(s) == {s[i] : i \in 1..Len(s)}

RECURSIVE SumAmounts(_)
SumAmounts(rows) ==
    IF rows = {} THEN 0
    ELSE LET x == CHOOSE y \in rows : TRUE
         IN  x.amount + SumAmounts(rows \ {x})

\* Mutant: the lookup compares the email as sent
findUserByRawEmail(table, email) ==
    {u \in SeqToSet(table) : u.email = email}

\* SELECT * FROM users WHERE email = $1: the matching rows.  rows[0] of a
\* result without ORDER BY is any of them.
findUserByEmail(table, email) ==
    {u \in SeqToSet(table) : u.email = Normalize(email)}

\* SELECT * FROM users WHERE referral_code = $1
findUserByReferralCode(table, code) ==
    {u \in SeqToSet(table) : u.referral_code = code}

\* INSERT INTO users (...) VALUES ($1, $2, $3, 0.00, NOW()) RETURNING *
createUser(table, email, referredByCode) ==
    Append(table, [id               |-> Len(table) + 1,
                   email            |-> Normalize(email),
                   referral_code    |-> generateReferralCode(email),
                   referred_by_code |-> referredByCode,
                   balance          |-> 0])

\* Mutant: the join taken downwards, ON u2.referred_by_code = u1.referral_code
ReferrerRowsDownwards(table, currentUserId) ==
    {u2 \in SeqToSet(table) :
        \E u1 \in SeqToSet(table) :
            /\ u1.id = currentUserId
            /\ u2.referred_by_code # NULL
            /\ u2.referred_by_code = u1.referral_code}

\* One iteration's query of getReferrerChain: the users joined to
\* currentUserId through referred_by_code = referral_code.  A NULL
\* referred_by_code joins nothing.
ReferrerRows(table, currentUserId) ==
    {u2 \in SeqToSet(table) :
        \E u1 \in SeqToSet(table) :
            /\ u1.id = currentUserId
            /\ u1.referred_by_code # NULL
            /\ u1.referred_by_code = u2.referral_code}

RECURSIVE ReferrerChainFrom(_, _, _, _)
\* The while loop of getReferrerChain from the locals (currentUserId,
\* chain), level being Len(chain): the chains it may return, one for each
\* choice of rows[0].
ReferrerChainFrom(table, currentUserId, chain, maxLevel) ==
    IF ~(Len(chain) < maxLevel) THEN {chain}
    ELSE LET rows == ReferrerRows(table, currentUserId)
         IN  IF rows = {} THEN {chain}
             ELSE UNION {ReferrerChainFrom(
                             table, row.id,
                             Append(chain, [user  |-> row.id,
                                            level |-> Len(chain) + 1]),
                             maxLevel) : row \in rows}

\* getReferrerChain(userId, maxLevel) run on one state of the table.
getReferrerChain(table, userId, maxLevel) ==
    ReferrerChainFrom(table, userId, <<>>, maxLevel)

\* SELECT COALESCE(SUM(amount), 0) ... WHERE referrer_id = $1 AND status = $2
EarningRows(table, referrerId, status) ==
    {e \in SeqToSet(table) : e.referrer_id = referrerId /\ e.status = status}

SumEarnings(table, referrerId, status) ==
    SumAmounts(EarningRows(table, referrerId, status))

\* parseFloat(total) || 0 and parseMoney(balance) on the numbers of the
\* store: NULL and NaN become 0, a number is itself.
parseMoney(value) == IF value = NULL THEN 0 ELSE value

\* Mutant: UPDATE referral_earnings SET claimed_at = NOW()
\*   WHERE referrer_id = $1 AND status = 'pending', the status forgotten
MarkClaimedAtOnly(table, referrerId, now) ==
    [i \in 1..Len(table) |->
        IF table[i].referrer_id = referrerId /\ table[i].status = "pending"
        THEN [table[i] EXCEPT !.claimed_at = now]
        ELSE table[i]]

\* Mutant: UPDATE referral_earnings SET status = 'claimed',
\*   claimed_at = NOW() WHERE status = 'pending'
MarkClaimedOfEveryone(table, referrerId, now) ==
    [i \in 1..Len(table) |->
        IF table[i].status = "pending"
        THEN [table[i] EXCEPT !.status = "claimed", !.claimed_at = now]
        ELSE table[i]]

\* UPDATE referral_earnings SET status = 'claimed', claimed_at = NOW()
\*   WHERE referrer_id = $1 AND status = 'pending'
MarkClaimed(table, referrerId, now) ==
    [i \in 1..Len(table) |->
        IF table[i].referrer_id = referrerId /\ table[i].status = "pending"
        THEN [table[i] EXCEPT !.status = "claimed", !.claimed_at = now]
        ELSE table[i]]

\* Mutant: UPDATE users SET balance = $1 WHERE id = $2
CreditBalanceOverwrite(table, amount, id) ==
    [i \in 1..Len(table) |->
        IF table[i].id = id
        THEN [table[i] EXCEPT !.balance = amount]
        ELSE table[i]]

\* Mutant: UPDATE users SET balance = balance + $1, the WHERE forgotten
CreditBalanceEveryone(table, amount, id) ==
    [i \in 1..Len(table) |->
        [table[i] EXCEPT !.balance = table[i].balance + amount]]

\* UPDATE users SET balance = balance + $1 WHERE id = $2
CreditBalance(table, amount, id) ==
    [i \in 1..Len(table) |->
        IF table[i].id = id
        THEN [table[i] EXCEPT !.balance = table[i].balance + amount]
        ELSE table[i]]

\* INSERT INTO deposits (user_id, amount, status, created_at)
\*   VALUES ($1, $2, 'completed', NOW()) RETURNING *
InsertDeposit(table, userId, amount) ==
    Append(table, [id      |-> Len(table) + 1,
                   user_id |-> userId,
                   amount  |-> amount,
                   status  |-> "completed"])

\* Mutant: earningAmount = amount * percentage, the division forgotten
InsertEarningUndivided(table, depositId, userId, amount, entry) ==
    LET percentage    == REFERRAL_LEVELS[entry.level]
        earningAmount == amount * percentage
    IN  Append(table, [id               |-> Len(table) + 1,
                       referrer_id      |-> entry.user,
                       referred_user_id |-> userId,
                       deposit_id       |-> depositId,
                       level            |-> entry.level,
                       percentage       |-> percentage,
                       amount           |-> earningAmount,
                       status           |-> "pending",
                       claimed_at       |-> NULL])

\* The body of the loop of calculateReferralEarnings for one chain entry.
InsertEarning(table, depositId, userId, amount, entry) ==
    LET percentage    == REFERRAL_LEVELS[entry.level]
        earningAmount == (amount * percentage) \div 100
    IN  Append(table, [id               |-> Len(table) + 1,
                       referrer_id      |-> entry.user,
                       referred_user_id |-> userId,
                       deposit_id       |-> depositId,
                       level            |-> entry.level,
                       percentage       |-> percentage,
                       amount           |-> earningAmount,
                       status           |-> "pending",
                       claimed_at       |-> NULL])

\* Mutant: ... WHERE referred_by_code = $1 LIMIT 1
ReferredByFirst(table, code) ==
    LET rows == SelectSeq(table, LAMBDA u : u.referred_by_code = code)
    IN  IF rows = <<>> THEN rows ELSE <<rows[1]>>

\* SELECT id, email, referral_code, created_at FROM users
\*   WHERE referred_by_code = $1
ReferredBy(table, code) ==
    SelectSeq(table, LAMBDA u : u.referred_by_code = code)

RECURSIVE ReferredByEach(_, _)
\* The rows referred by members[1], members[2], ... in that order
\* (for (const l1User of level1.rows) { ...; team.level2.push(...level2.rows) }).
ReferredByEach(table, members) ==
    IF members = <<>>
    THEN <<>>
    ELSE ReferredBy(table, Head(members).referral_code)
         \o ReferredByEach(table, Tail(members))

\* Mutant: the inner loop runs over level1.rows again
getTeamByLevelShallow(table, userId) ==
    LET user   == SelectSeq(table, LAMBDA u : u.id = userId)
        level1 == ReferredBy(table, user[1].referral_code)
        level2 == ReferredByEach(table, level1)
        level3 == ReferredByEach(table, level1)
    IN  IF user = <<>>
        THEN [level1 |-> <<>>, level2 |-> <<>>, level3 |-> <<>>]
        ELSE [level1 |-> level1, level2 |-> level2, level3 |-> level3]

getTeamByLevel(table, userId) ==
    LET user   == SelectSeq(table, LAMBDA u : u.id = userId)
        level1 == ReferredBy(table, user[1].referral_code)
        level2 == ReferredByEach(table, level1)
        level3 == ReferredByEach(table, level2)
    IN  IF user = <<>>
        THEN [level1 |-> <<>>, level2 |-> <<>>, level3 |-> <<>>]
        ELSE [level1 |-> level1, level2 |-> level2, level3 |-> level3]

----------------------------------------------------------------------------
(* Request handlers                                                        *)

\* What a caller may send as amount; 0 stands for a missing amount too.
DepositAmounts == {-100, 0, 100}

\* The data of a response; a field an endpoint does not send keeps its
\* value here.
NoData ==
    [id |-> NULL, referralCode |-> NULL, isNew |-> FALSE,
     claimedAmount |-> 0, newBalance |-> 0, depositId |-> NULL,
     pendingBalance |-> 0, claimedBalance |-> 0, totalBalance |-> 0,
     level1 |-> 0, level2 |-> 0, level3 |-> 0, totalTeam |-> 0,
     history |-> <<>>]

\* A handler's locals.  alone, after, oldBalance and readRows are history:
\* whether no other request took a step since this one was accepted, the
\* user whose uninterrupted successful claim immediately preceded it, and
\* what the pending-sum query of a claim saw.
Idle ==
    [kind |-> "none", pc |-> "idle", email |-> NoEmail, referralCode |-> NULL,
     amount |-> 0, user |-> NULL, validReferralCode |-> NULL,
     pendingAmount |-> 0, chain |-> <<>>, currentUserId |-> NULL,
     depositId |-> NULL, idx |-> 0,
     alone |-> TRUE, after |-> NULL, oldBalance |-> 0, readRows |-> {}]

NoOut == [req |-> Idle, status |-> 0, error |-> "", data |-> NoData]

Success(o) == o.status = 200

\* Another request takes a step: a claim in flight is no longer alone.
Disturb(q) ==
    IF q.kind = "claim" THEN [q EXCEPT !.alone = FALSE] ELSE q

\* Handler r goes on to its next statement with locals new.
Continue(r, new) ==
    /\ req' = [s \in Slots |-> IF s = r THEN new ELSE Disturb(req[s])]
    /\ out' = NoOut

\* Handler r, with locals last, sends its response and ends.
Respond(r, last, status, error, data) ==
    /\ req' = [s \in Slots |-> IF s = r THEN Idle ELSE Disturb(req[s])]
    /\ out' = [req |-> last, status |-> status, error |-> error, data |-> data]

\* A request is accepted on the lowest free connection slot.
Accept(r) ==
    /\ nreq < MaxReq
    /\ req[r].pc = "idle"
    /\ \A s \in Slots : s < r => req[s].pc # "idle"
    /\ nreq' = nreq + 1

\* The user whose claim, run with no other request interleaved, succeeded
\* in the latest step.
JustClaimed ==
    IF out.req.kind = "claim" /\ Success(out) /\ out.req.alone
    THEN out.req.user ELSE NULL

Arrive(kind, email, referralCode, amount) ==
    [Idle EXCEPT !.kind = kind, !.pc = "find", !.email = email,
                 !.referralCode = referralCode, !.amount = amount,
                 !.after = IF kind = "claim" THEN JustClaimed ELSE NULL]

\* Any statement may fail: the handler's catch block answers 500.
ServerError(r, last) == Respond(r, last, 500, "Server error", NoData)

\* A handler that awaits a statement fails there.
StoreError(r) ==
    /\ req[r].pc # "idle"
    /\ ServerError(r, req[r])
    /\ UNCHANGED <<digest, users, deposits, earnings, credited, nreq>>

\* if (!email) return res.status(400)...
EmailRequired(r, new) == Respond(r, new, 400, "Email is required", NoData)

\* Mutant: an unknown email is answered with an empty success result
NotFoundAsEmpty(r, last) == Respond(r, last, 200, "", NoData)

\* return res.status(404)...
NotFound(r, last) == Respond(r, last, 404, "User not found", NoData)

\* A handler's first step: the request is accepted, validated, and its
\* first statement, findUserByEmail, runs (or fails).  Found(new, user)
\* is what the handler does with the row it got.
Emails == RawEmails \cup {NoEmail}

(* GET /api/referral *)

ReferralData(user) ==
    [NoData EXCEPT !.referralCode = user.referral_code]

ReferralStart(r) ==
    /\ Accept(r)
    /\ \E email \in Emails :
          LET new  == Arrive("referral", email, NULL, 0)
              rows == findUserByEmail(users, email)
          IN  IF email = NoEmail THEN EmailRequired(r, new)
              ELSE \/ ServerError(r, new)
                   \/ /\ rows = {}
                      /\ Continue(r, [new EXCEPT !.pc = "create"])
                   \/ \E user \in rows :
                         Respond(r, [new EXCEPT !.user = user.id], 200, "",
                                 ReferralData(user))
    /\ UNCHANGED <<digest, users, deposits, earnings, credited>>

ReferralCreate(r) ==
    /\ req[r].kind = "referral" /\ req[r].pc = "create"
    /\ users' = createUser(users, req[r].email, NULL)
    /\ LET user == users'[Len(users')]
       IN  Respond(r, [req[r] EXCEPT !.user = user.id], 200, "",
                   ReferralData(user))
    /\ UNCHANGED <<digest, deposits, earnings, credited, nreq>>

(* POST /api/register *)

RegisterData(user, isNew) ==
    [NoData EXCEPT !.id = user.id, !.referralCode = user.referral_code,
                   !.isNew = isNew]

RegisterStart(r) ==
    /\ Accept(r)
    /\ \E email \in Emails, referralCode \in RefCodeInputs :
          LET new  == Arrive("register", email, referralCode, 0)
              rows == findUserByEmail(users, email)
          IN  IF email = NoEmail THEN EmailRequired(r, new)
              ELSE \/ ServerError(r, new)
                   \/ \E user \in rows :
                         Respond(r, [new EXCEPT !.user = user.id], 200, "",
                                 RegisterData(user, FALSE))
                   \/ /\ rows = {}
                      /\ Continue(r, [new EXCEPT !.pc =
                            IF referralCode # NULL THEN "findref" ELSE "create"])
    /\ UNCHANGED <<digest, users, deposits, earnings, credited>>

\* Mutant: the referral code is stored without the lookup's verdict
RegisterFindReferrerUnchecked(r) ==
    /\ req[r].kind = "register" /\ req[r].pc = "findref"
    /\ Continue(r, [req[r] EXCEPT !.pc = "create",
                                  !.validReferralCode = req[r].referralCode])
    /\ UNCHANGED <<digest, users, deposits, earnings, credited, nreq>>

RegisterFindReferrer(r) ==
    /\ req[r].kind = "register" /\ req[r].pc = "findref"
    /\ LET referrer == findUserByReferralCode(users, req[r].referralCode)
       IN  Continue(r, [req[r] EXCEPT
                !.pc = "create",
                !.validReferralCode =
                    IF referrer # {} THEN req[r].referralCode ELSE NULL])
    /\ UNCHANGED <<digest, users, deposits, earnings, credited, nreq>>

RegisterCreate(r) ==
    /\ req[r].kind = "register" /\ req[r].pc = "create"
    /\ users' = createUser(users, req[r].email, req[r].validReferralCode)
    /\ LET user == users'[Len(users')]
       IN  Respond(r, [req[r] EXCEPT !.user = user.id], 200, "",
                   RegisterData(user, TRUE))
    /\ UNCHANGED <<digest, deposits, earnings, credited, nreq>>

(* POST /api/claim *)

ClaimStart(r) ==
    /\ Accept(r)
    /\ \E email \in Emails :
          LET new  == Arrive("claim", email, NULL, 0)
              rows == findUserByEmail(users, email)
          IN  IF email = NoEmail THEN EmailRequired(r, new)
              ELSE \/ ServerError(r, new)
                   \/ rows = {} /\ NotFound(r, new)
                   \/ \E user \in rows :
                         Continue(r, [new EXCEPT !.user = user.id, !.pc = "sum"])
    /\ UNCHANGED <<digest, users, deposits, earnings, credited>>

\* Mutant: if (pendingAmount < 0)
NothingToClaimStrict(pendingAmount) == pendingAmount < 0

\* if (pendingAmount <= 0)
NothingToClaim(pendingAmount) == pendingAmount <= 0

ClaimSum(r) ==
    /\ req[r].kind = "claim" /\ req[r].pc = "sum"
    /\ LET rows == EarningRows(earnings, req[r].user, "pending")
           pendingAmount == parseMoney(SumAmounts(rows))
           new  == [req[r] EXCEPT
                       !.pendingAmount = pendingAmount,
                       !.readRows = {e.id : e \in rows},
                       !.oldBalance = users[req[r].user].balance]
       IN  IF NothingToClaim(pendingAmount)
           THEN Respond(r, new, 400, "No pending rewards to claim", NoData)
           ELSE Continue(r, [new EXCEPT !.pc = "mark"])
    /\ UNCHANGED <<digest, users, deposits, earnings, credited, nreq>>

ClaimMark(r) ==
    /\ req[r].kind = "claim" /\ req[r].pc = "mark"
    /\ earnings' = MarkClaimed(earnings, req[r].user, nreq)
    /\ Continue(r, [req[r] EXCEPT !.pc = "credit"])
    /\ UNCHANGED <<digest, users, deposits, credited, nreq>>

ClaimCredit(r) ==
    /\ req[r].kind = "claim" /\ req[r].pc = "credit"
    /\ users' = CreditBalance(users, req[r].pendingAmount, req[r].user)
    /\ credited' = [i \in 1..Len(credited) |->
                       IF i \in req[r].readRows
                       THEN credited[i] + 1 ELSE credited[i]]
    /\ Continue(r, [req[r] EXCEPT !.pc = "reread"])
    /\ UNCHANGED <<digest, deposits, earnings, nreq>>

ClaimReread(r) ==
    /\ req[r].kind = "claim" /\ req[r].pc = "reread"
    /\ \E updatedUser \in findUserByEmail(users, req[r].email) :
          Respond(r, req[r], 200, "",
                  [NoData EXCEPT
                      !.claimedAmount = req[r].pendingAmount,
                      !.newBalance = parseMoney(updatedUser.balance)])
    /\ UNCHANGED <<digest, users, deposits, earnings, credited, nreq>>

(* POST /api/deposit *)

\* getReferrerChain(userId, maxLevel = 3)
MaxLevel == 3

\* if (!email || !amount): true of a missing email and of the amount 0
AmountRequired(email, amount) == email = NoEmail \/ amount = 0

DepositStart(r) ==
    /\ Accept(r)
    /\ \E email \in Emails, amount \in DepositAmounts :
          LET new  == Arrive("deposit", email, NULL, amount)
              rows == findUserByEmail(users, email)
          IN  IF AmountRequired(email, amount)
              THEN Respond(r, new, 400, "Email and amount are required", NoData)
              ELSE \/ ServerError(r, new)
                   \/ rows = {} /\ NotFound(r, new)
                   \/ \E user \in rows :
                         Continue(r, [new EXCEPT !.user = user.id,
                                                 !.pc = "insert"])
    /\ UNCHANGED <<digest, users, deposits, earnings, credited>>

DepositData(q) == [NoData EXCEPT !.depositId = q.depositId]

DepositInsert(r) ==
    /\ req[r].kind = "deposit" /\ req[r].pc = "insert"
    /\ deposits' = InsertDeposit(deposits, req[r].user, req[r].amount)
    /\ Continue(r, [req[r] EXCEPT !.depositId = Len(deposits'),
                                  !.chain = <<>>,
                                  !.currentUserId = req[r].user,
                                  !.pc = "chain"])
    /\ UNCHANGED <<digest, users, earnings, credited, nreq>>

\* The chain is complete: the loop of calculateReferralEarnings starts, or,
\* with an empty chain, the handler responds.
ChainDone(r, q) ==
    IF q.chain = <<>>
    THEN Respond(r, q, 200, "", DepositData(q))
    ELSE Continue(r, [q EXCEPT !.pc = "earn", !.idx = 1])

\* Mutant: while (true), the loop left only when the query returns no row
DepositChainUnbounded(r) ==
    /\ req[r].kind = "deposit" /\ req[r].pc = "chain"
    /\ LET rows == ReferrerRows(users, req[r].currentUserId)
       IN  IF rows = {}
           THEN ChainDone(r, req[r])
           ELSE \E row \in rows :
                  LET level == Len(req[r].chain) + 1
                      q == [req[r] EXCEPT
                              !.chain = Append(@, [user |-> row.id, level |-> level]),
                              !.currentUserId = row.id]
                  IN  Continue(r, q)
    /\ UNCHANGED <<digest, users, deposits, earnings, credited, nreq>>

\* One iteration of the while loop of getReferrerChain (level = Len(chain)).
DepositChain(r) ==
    /\ req[r].kind = "deposit" /\ req[r].pc = "chain"
    /\ LET rows == ReferrerRows(users, req[r].currentUserId)
       IN  IF rows = {}
           THEN ChainDone(r, req[r])
           ELSE \E row \in rows :
                  LET level == Len(req[r].chain) + 1
                      q == [req[r] EXCEPT
                              !.chain = Append(@, [user |-> row.id, level |-> level]),
                              !.currentUserId = row.id]
                  IN  IF level < MaxLevel THEN Continue(r, q) ELSE ChainDone(r, q)
    /\ UNCHANGED <<digest, users, deposits, earnings, credited, nreq>>

\* One iteration of the for loop of calculateReferralEarnings.
DepositEarn(r) ==
    /\ req[r].kind = "deposit" /\ req[r].pc = "earn"
    /\ earnings' = InsertEarning(earnings, req[r].depositId, req[r].user,
                                 req[r].amount, req[r].chain[req[r].idx])
    /\ credited' = Append(credited, 0)
    /\ IF req[r].idx < Len(req[r].chain)
       THEN Continue(r, [req[r] EXCEPT !.idx = @ + 1])
       ELSE Respond(r, req[r], 200, "", DepositData(req[r]))
    /\ UNCHANGED <<digest, users, deposits, nreq>>

(* The read-only handlers run their statements on one state of the store. *)

(* GET /api/balance *)

\* SELECT level, SUM(amount) ... WHERE referrer_id = $1 GROUP BY level
LevelTotal(table, referrerId, level) ==
    SumAmounts({e \in SeqToSet(table) :
                   e.referrer_id = referrerId /\ e.level = level})

BalanceData(user) ==
    [NoData EXCEPT
        !.pendingBalance = parseMoney(SumEarnings(earnings, user.id, "pending")),
        !.claimedBalance = parseMoney(SumEarnings(earnings, user.id, "claimed")),
        !.totalBalance = parseMoney(user.balance),
        !.level1 = parseMoney(LevelTotal(earnings, user.id, 1)),
        !.level2 = parseMoney(LevelTotal(earnings, user.id, 2)),
        !.level3 = parseMoney(LevelTotal(earnings, user.id, 3))]

Balance(r) ==
    /\ Accept(r)
    /\ \E email \in Emails :
          LET new  == Arrive("balance", email, NULL, 0)
              rows == findUserByEmail(users, email)
          IN  IF email = NoEmail THEN EmailRequired(r, new)
              ELSE \/ ServerError(r, new)
                   \/ rows = {} /\ NotFound(r, new)
                   \/ \E user \in rows :
                         Respond(r, [new EXCEPT !.user = user.id], 200, "",
                                 BalanceData(user))
    /\ UNCHANGED <<digest, users, deposits, earnings, credited>>

(* GET /api/team *)

TeamData(user) ==
    LET team == getTeamByLevel(users, user.id)
    IN  [NoData EXCEPT
            !.level1 = Len(team.level1),
            !.level2 = Len(team.level2),
            !.level3 = Len(team.level3),
            !.totalTeam = Len(team.level1) + Len(team.level2) + Len(team.level3)]

Team(r) ==
    /\ Accept(r)
    /\ \E email \in Emails :
          LET new  == Arrive("team", email, NULL, 0)
              rows == findUserByEmail(users, email)
          IN  IF email = NoEmail THEN EmailRequired(r, new)
              ELSE \/ ServerError(r, new)
                   \/ rows = {} /\ NotFound(r, new)
                   \/ \E user \in rows :
                         Respond(r, [new EXCEPT !.user = user.id], 200, "",
                                 TeamData(user))
    /\ UNCHANGED <<digest, users, deposits, earnings, credited>>

(* GET /api/inviter *)

Inviter(r) ==
    /\ Accept(r)
    /\ \E referralCode \in RefCodeInputs :
          LET new  == Arrive("inviter", NoEmail, referralCode, 0)
              rows == findUserByReferralCode(users, referralCode)
          IN  IF referralCode = NULL
              THEN Respond(r, new, 400, "Referral code is required", NoData)
              ELSE \/ ServerError(r, new)
                   \/ /\ rows = {}
                      /\ Respond(r, new, 404, "Inviter not found", NoData)
                   \/ \E inviter \in rows :
                         Respond(r, [new EXCEPT !.user = inviter.id], 200, "",
                                 [NoData EXCEPT
                                     !.referralCode = inviter.referral_code])
    /\ UNCHANGED <<digest, users, deposits, earnings, credited>>

(* GET /api/earnings-history *)

\* LIMIT 50
HistoryLimit == 50

\* ... WHERE re.referrer_id = $1 ORDER BY re.created_at DESC LIMIT 50: the
\* ids of the rows, newest first (rows are created in id order).
EarningsHistory(table, referrerId) ==
    LET mine == SelectSeq(table, LAMBDA e : e.referrer_id = referrerId)
        desc == [i \in 1..Len(mine) |-> mine[Len(mine) + 1 - i].id]
    IN  IF Len(desc) <= HistoryLimit THEN desc ELSE SubSeq(desc, 1, HistoryLimit)

History(r) ==
    /\ Accept(r)
    /\ \E email \in Emails :
          LET new  == Arrive("history", email, NULL, 0)
              rows == findUserByEmail(users, email)
          IN  IF email = NoEmail THEN EmailRequired(r, new)
              ELSE \/ ServerError(r, new)
                   \/ rows = {} /\ NotFound(r, new)
                   \/ \E user \in rows :
                         Respond(r, [new EXCEPT !.user = user.id], 200, "",
                                 [NoData EXCEPT !.history =
                                     EarningsHistory(earnings, user.id)])
    /\ UNCHANGED <<digest, users, deposits, earnings, credited>>

(* GET /api/health *)

Health(r) ==
    /\ Accept(r)
    /\ Respond(r, Arrive("health", NoEmail, NULL, 0), 200, "", NoData)
    /\ UNCHANGED <<digest, users, deposits, earnings, credited>>

----------------------------------------------------------------------------
(* The stores a run starts from                                            *)

\* The store the service starts on is whatever earlier runs left in it.
\* Each store below is one that requests reach from the empty store
\* (Registered, Deposited: the handlers above run one after the other).

\* POST /api/register run to its end on table.
Registered(table, email, referralCode) ==
    IF findUserByEmail(table, email) # {} THEN table
    ELSE createUser(table, email,
                    IF referralCode # NULL
                       /\ findUserByReferralCode(table, referralCode) # {}
                    THEN referralCode ELSE NULL)

RECURSIVE Accrued(_, _, _, _, _)
\* calculateReferralEarnings run to its end on table for the chain given.
Accrued(table, depositId, userId, amount, chain) ==
    IF chain = <<>> THEN table
    ELSE Accrued(InsertEarning(table, depositId, userId, amount, Head(chain)),
                 depositId, userId, amount, Tail(chain))

Zeros(table) == [i \in 1..Len(table) |-> 0]

EmptyStore == [users |-> <<>>, deposits |-> <<>>, earnings |-> <<>>]

\* c, a referred by c, b referred by a; b has deposited 100.
ChainStore ==
    LET u1 == Registered(<<>>, <<"c">>, NULL)
        u2 == Registered(u1, <<"a">>, generateReferralCode(<<"c">>))
        u3 == Registered(u2, <<"b">>, generateReferralCode(<<"a">>))
    IN  [users    |-> u3,
         deposits |-> InsertDeposit(<<>>, 3, 100),
         earnings |-> Accrued(<<>>, 1, 3, 100,
                              <<[user |-> 2, level |-> 1],
                                [user |-> 1, level |-> 2]>>)]

\* Two GET /api/referral for the new email a both looked it up before
\* either inserted; then b registered under a's code and deposited 100,
\* the chain lookup returning the first row of a.
TwinStores ==
    LET u1 == createUser(<<>>, <<"a">>, NULL)
        u2 == createUser(u1, <<"a">>, NULL)
        u3 == Registered(u2, <<"b">>, generateReferralCode(<<"a">>))
    IN  {[users    |-> u3,
          deposits |-> InsertDeposit(<<>>, 3, 100),
          earnings |-> Accrued(<<>>, 1, 3, 100, <<[user |-> 1, level |-> 1]>>)]}

\* Digests under which the five emails derive five different codes.
PlainDigest ==
    (<<"a">> :> [hi |-> 0, lo |-> 5]) @@ (<<"b">> :> [hi |-> 0, lo |-> 6])
    @@ (<<"c">> :> [hi |-> 65535, lo |-> 65535])
    @@ (<<"d">> :> [hi |-> 0, lo |-> 0])
    @@ (<<"e">> :> [hi |-> 13, lo |-> 48031])

\* Digests under which a and b derive the same code.
CollidingDigest ==
    (<<"a">> :> [hi |-> 0, lo |-> 5]) @@ (<<"b">> :> [hi |-> 13, lo |-> 48037])
    @@ (<<"c">> :> [hi |-> 0, lo |-> 6])
    @@ (<<"d">> :> [hi |-> 0, lo |-> 0])
    @@ (<<"e">> :> [hi |-> 13, lo |-> 48031])

Digests == {PlainDigest, CollidingDigest}

Stores ==
    IF digest = PlainDigest
    THEN {EmptyStore, ChainStore} \cup TwinStores
    ELSE {EmptyStore}

Init ==
    /\ digest \in Digests
    /\ \E store \in Stores :
          /\ users = store.users
          /\ deposits = store.deposits
          /\ earnings = store.earnings
          /\ credited = Zeros(store.earnings)
    /\ req = [s \in Slots |-> Idle]
    /\ nreq = 0
    /\ out = NoOut

Next ==
    \E r \in Slots :
        \/ ReferralStart(r) \/ ReferralCreate(r)
        \/ RegisterStart(r) \/ RegisterFindReferrer(r) \/ RegisterCreate(r)
        \/ ClaimStart(r) \/ ClaimSum(r) \/ ClaimMark(r)
        \/ ClaimCredit(r) \/ ClaimReread(r)
        \/ DepositStart(r) \/ DepositInsert(r)
        \/ DepositChain(r) \/ DepositEarn(r)
        \/ Balance(r) \/ Team(r) \/ Inviter(r) \/ History(r)
        \/ Health(r)
        \/ StoreError(r)

Spec == Init /\ [][Next]_vars

----------------------------------------------------------------------------
(* Claim settlement                                                        *)

\* The claim handlers in flight.
Claims == {r \in Slots : req[r].kind = "claim"}

\* C1: claim settlement is all-or-nothing: in no reachable state are
\* earning rows marked claimed while their amount was never added to a
\* balance.  (Refuted: the two UPDATEs are separate statements.)
C1_ClaimAllOrNothing ==
    \A i \in 1..Len(earnings) :
        earnings[i].status = "claimed" => credited[i] >= 1

\* Two claim handlers for the same user that have both added their sum to
\* the balance, having summed the same pending rows.
BothCredited(r1, r2) ==
    /\ r1 # r2
    /\ req[r1].user = req[r2].user
    /\ req[r1].pc = "reread" /\ req[r2].pc = "reread"
    /\ req[r1].readRows = req[r2].readRows

\* C2: two concurrent claims for one user can both read the same pending
\* sum before either writes; when they have, both passed the check with the
\* same positive value and the balance was incremented twice for the same
\* rows.
C2_DoubleClaim ==
    \A r1, r2 \in Claims :
        BothCredited(r1, r2) =>
            /\ req[r1].pendingAmount = req[r2].pendingAmount
            /\ req[r1].pendingAmount > 0
            /\ users[req[r1].user].balance
                   >= req[r1].oldBalance + 2 * req[r1].pendingAmount
            /\ \A i \in req[r1].readRows : credited[i] >= 2

C2_Witness ==
    \E r1, r2 \in Claims :
        /\ BothCredited(r1, r2)
        /\ req[r1].readRows # {}
        /\ users[req[r1].user].balance
               = req[r1].oldBalance + 2 * req[r1].pendingAmount

NothingToClaimError == "No pending rewards to claim"

\* No two user records have the same (normalized) email.
UniqueEmails(table) ==
    \A i, j \in 1..Len(table) : table[i].email = table[j].email => i = j

\* The sum of the amounts of the earning rows with the ids given.
AmountOfRows(ids) == SumAmounts({earnings[i] : i \in ids})

\* C3: a claim for user U that runs with no other request interleaved and
\* meets no statement failure, U's pending earnings summing to S > 0, ends
\* with every row that was pending claimed with claimed_at set, U's balance
\* its old value plus S, and the response reporting claimedAmount = S and
\* newBalance = old balance + S; a claim for U issued immediately
\* afterwards fails with the nothing-to-claim error.  (Refuted where two
\* user records share U's email, see C8: the balance re-read after the
\* credit may return the other record.)
C3_ClaimSettles ==
    LET q == out.req
        S == AmountOfRows(q.readRows)
    IN  /\ (q.kind = "claim" /\ q.alone /\ Success(out)) =>
              /\ S > 0
              /\ \A i \in q.readRows :
                    /\ earnings[i].status = "claimed"
                    /\ earnings[i].claimed_at # NULL
              /\ EarningRows(earnings, q.user, "pending") = {}
              /\ users[q.user].balance = q.oldBalance + S
              /\ out.data.claimedAmount = S
              /\ out.data.newBalance = q.oldBalance + S
        /\ (q.kind = "claim" /\ q.alone /\ q.after # NULL
                /\ q.after = q.user /\ out.status # 500) =>
              /\ out.status = 400
              /\ out.error = NothingToClaimError

\* What holds of C3 in the states where every email has one user record.
ClaimSettlesGivenUniqueEmails == UniqueEmails(users) => C3_ClaimSettles

\* An uninterrupted claim has succeeded and the next request, a claim for
\* the same user, has been answered.
SecondClaimAnswered ==
    /\ out.req.kind = "claim" /\ out.req.alone
    /\ out.req.after # NULL /\ out.req.after = out.req.user
    /\ out.error = NothingToClaimError

\* Handler r runs its pending-sum statement in this step.
SumsNow(r) ==
    /\ req[r].kind = "claim" /\ req[r].pc = "sum"
    /\ req'[r].pc # "sum"
    /\ out'.error # "Server error"

\* C4: a claim for a user whose pending earnings sum to a value <= 0 (also
\* a user with no pending earning) fails with the nothing-to-claim error,
\* and the request leaves every balance and every earning row unchanged.
C4_NothingToClaim ==
    [][ /\ \A r \in Slots :
            (SumsNow(r) /\ SumEarnings(earnings, req[r].user, "pending") <= 0)
            => /\ out'.status = 400
               /\ out'.error = NothingToClaimError
               /\ out'.req.kind = "claim"
               /\ req'[r] = Idle
        /\ (out'.error = NothingToClaimError \/ nreq' # nreq)
            => UNCHANGED <<users, earnings, deposits>>
      ]_vars

\* A claim that summed pending rows worth nothing was answered so.
C4_Witness ==
    /\ out.error = NothingToClaimError
    /\ out.req.readRows # {}
    /\ out.req.pendingAmount = 0

\* Handler r adds its sum to the balance of user i in this step.
CreditsNow(r, i) ==
    /\ req[r].kind = "claim" /\ req[r].pc = "credit" /\ req[r].user = i
    /\ req'[r].pc = "reread"
    /\ req[r].pendingAmount > 0
    /\ users'[i].balance = users[i].balance + req[r].pendingAmount

\* C5: a user's balance never decreases, and only the credit of a claim
\* for that same user changes it: every other step of every handler
\* leaves all balances unchanged, and a claim for U leaves the balance of
\* every other user unchanged.
C5_BalanceMonotone ==
    [][ /\ Len(users') >= Len(users)
        /\ \A i \in 1..Len(users) :
              /\ users'[i].balance >= users[i].balance
              /\ users'[i].balance # users[i].balance
                    => \E r \in Slots : CreditsNow(r, i)
      ]_vars

\* A balance was credited while a deposit handler is in flight.
C5_Witness ==
    /\ \E i \in 1..Len(users) : users[i].balance > 0
    /\ \E r \in Slots : req[r].kind = "deposit"

----------------------------------------------------------------------------
(* Commission accrual                                                      *)

\* The tier rates of the specification, in percent.
Rate(level) == CASE level = 1 -> 16 [] level = 2 -> 3 [] level = 3 -> 2

\* User j is a referrer of user i: j's code is i's referred_by_code.
Refers(table, i, j) ==
    /\ table[i].referred_by_code # NULL
    /\ table[j].referral_code = table[i].referred_by_code

\* chain is an ancestor chain of userId: entry k is a referrer of entry
\* k - 1 (of userId for k = 1) at level k, and the chain ends only at
\* three entries or at a user without a referrer.
AncestorChain(table, userId, chain) ==
    LET at(k) == IF k = 0 THEN userId ELSE chain[k].user
    IN  /\ Len(chain) <= 3
        /\ \A k \in 1..Len(chain) :
              /\ chain[k].level = k
              /\ chain[k].user \in 1..Len(table)
              /\ Refers(table, at(k - 1), chain[k].user)
        /\ \/ Len(chain) = 3
           \/ \A j \in 1..Len(table) : ~Refers(table, at(Len(chain)), j)

\* The deposit just answered recorded its deposit row and exactly one
\* earning row per entry of the depositor's ancestor chain.
DepositExact ==
    LET q    == out.req
        rows == {e \in SeqToSet(earnings) : e.deposit_id = q.depositId}
    IN  /\ q.depositId \in 1..Len(deposits)
        /\ deposits[q.depositId] =
              [id |-> q.depositId, user_id |-> q.user, amount |-> q.amount,
               status |-> "completed"]
        /\ AncestorChain(users, q.user, q.chain)
        /\ Cardinality(rows) = Len(q.chain)
        /\ \A k \in 1..Len(q.chain) :
              \E e \in rows :
                  /\ e.level = k
                  /\ e.referrer_id = q.chain[k].user
                  /\ e.referred_user_id = q.user
                  /\ e.percentage = Rate(k)
                  /\ e.amount * 100 = q.amount * Rate(k)

\* Every row this step adds to referral_earnings is pending, is the only
\* one added, and is added by a deposit handler for its own deposit.
NewRowsPending ==
    /\ Len(earnings') \in {Len(earnings), Len(earnings) + 1}
    /\ \A i \in 1..Len(earnings') :
          i > Len(earnings) =>
              /\ earnings'[i].status = "pending"
              /\ earnings'[i].claimed_at = NULL
              /\ \E r \in Slots :
                    /\ req[r].kind = "deposit" /\ req[r].pc = "earn"
                    /\ earnings'[i].deposit_id = req[r].depositId

\* C6: a deposit of amount A by user U creates exactly one earning row per
\* entry (referrer, level) of U's ancestor chain and no other: each new row
\* is pending, with referrer_id that ancestor, referred_user_id U, the
\* deposit's id, the tier rate of its level (16, 3, 2) and amount
\* A * rate / 100.  With no referrer the deposit succeeds, its row is
\* recorded and no earning row is created.
C6_DepositAccrues ==
    /\ []((out.req.kind = "deposit" /\ Success(out)) => DepositExact)
    /\ [][NewRowsPending]_vars

\* A deposit whose chain has two entries was answered.
C6_Witness ==
    /\ out.req.kind = "deposit" /\ Success(out)
    /\ Len(out.req.chain) = 2
    /\ out.req.amount = 100

----------------------------------------------------------------------------
(* Registration                                                            *)

\* The email a caller's spelling stands for.
Canonical(email) == IF email = <<" ", "A">> THEN <<"a">> ELSE email

UsersOf(table, email) ==
    {u \in SeqToSet(table) : u.email = Canonical(email)}

\* The record a successful registration answers with is a user of that
\* email, and the code is the one the email derives.
RegisteredUser ==
    /\ out.data.id \in 1..Len(users)
    /\ users[out.data.id].email = Canonical(out.req.email)
    /\ users[out.data.id].referral_code = out.data.referralCode
    /\ out.data.referralCode = generateReferralCode(out.req.email)

\* No step changes the id, email, code or referrer of a user record.
UsersKeepIdentity ==
    /\ Len(users') >= Len(users)
    /\ \A i \in 1..Len(users) :
          users'[i] = [users[i] EXCEPT !.balance = users'[i].balance]

RegisterStep ==
    \* answered by the lookup: the email had a record, nothing is written
    /\ (nreq' # nreq /\ out'.req.kind = "register" /\ Success(out')) =>
          /\ ~out'.data.isNew
          /\ users' = users
          /\ \E u \in UsersOf(users, out'.req.email) : out'.data.id = u.id
    \* the handler goes on to create only when the email had no record
    /\ \A r \in Slots :
          (req[r].pc = "idle" /\ req'[r].kind = "register") =>
              UsersOf(users, req'[r].email) = {}
    \* answered by the insert: the record is new
    /\ (nreq' = nreq /\ out'.req.kind = "register" /\ Success(out')) =>
          /\ out'.data.isNew
          /\ Len(users') = Len(users) + 1
          /\ out'.data.id = Len(users')

\* C7: registering an email that already has a user record returns that
\* user's id and referral code with isNew = false, creates no user and
\* leaves its referredByCode unchanged, also when the request carries a
\* different valid referralCode; the first registration of an email
\* returns isNew = true and the same code as every later one.
C7_RegisterIdempotent ==
    /\ []((out.req.kind = "register" /\ Success(out)) => RegisteredUser)
    /\ [][UsersKeepIdentity /\ RegisterStep]_vars

\* An existing email was registered again under another, valid, code.
C7_Witness ==
    /\ out.req.kind = "register" /\ Success(out) /\ ~out.data.isNew
    /\ out.req.referralCode # NULL
    /\ \E u \in SeqToSet(users) : u.referral_code = out.req.referralCode
    /\ users[out.data.id].referred_by_code # out.req.referralCode

\* C8: no two user records have the same normalized email, whatever the
\* interleaving of register and get-or-create-referral requests: no step
\* adds a second record for an email.  (Refuted: lookup and insert are
\* separate statements.)
C8_EmailsStayUnique ==
    [][UniqueEmails(users) => UniqueEmails(users')]_vars

\* Every referred_by_code is the code of a user created earlier.
ReferrersExisted ==
    \A i \in 1..Len(users) :
        users[i].referred_by_code # NULL =>
            \E j \in 1..(i - 1) :
                users[j].referral_code = users[i].referred_by_code

ReferrerStep ==
    \* the verdict of the referrer lookup
    /\ \A r \in Slots :
          (req[r].pc = "findref" /\ req'[r].pc = "create") =>
              req'[r].validReferralCode =
                  IF \E u \in SeqToSet(users) :
                        u.referral_code = req[r].referralCode
                  THEN req[r].referralCode ELSE NULL
    \* the record created carries that verdict; get-or-create carries none
    /\ Len(users') > Len(users) =>
          \E r \in Slots :
              /\ req[r].pc = "create"
              /\ req'[r].pc = "idle"
              /\ users'[Len(users')].referred_by_code =
                    IF req[r].kind = "register"
                    THEN req[r].validReferralCode ELSE NULL

\* C9: every user whose referredByCode is set has the referralCode of a
\* user that existed when it was created; a registration whose referral
\* code matches no user creates the user with referredByCode unset, and
\* get-or-create-referral always creates users with it unset.
C9_ReferrerExisted ==
    /\ []ReferrersExisted
    /\ [][ReferrerStep]_vars

\* A registration under a valid code has just created a referred user.
C9_Witness ==
    /\ out.req.kind = "register" /\ Success(out) /\ out.data.isNew
    /\ users[out.data.id].referred_by_code # NULL

RECURSIVE Ancestors(_, _, _)
\* The users reached from the users in from by 1 to n referral edges.
Ancestors(table, from, n) ==
    IF n = 0 THEN {}
    ELSE LET next == {j \in 1..Len(table) :
                         \E i \in from : Refers(table, i, j)}
         IN  next \cup Ancestors(table, next, n - 1)

\* C10: the referral graph is acyclic in every state reached through
\* register and get-or-create-referral requests, for any assignment of
\* codes to emails; no user's referredByCode equals its own referralCode.
\* (Refuted when two emails derive the same code.)
C10_Acyclic ==
    \A i \in 1..Len(users) :
        /\ i \notin Ancestors(users, {i}, Len(users))
        /\ users[i].referred_by_code # users[i].referral_code

----------------------------------------------------------------------------
(* Unknown users                                                           *)

\* The endpoints that resolve a user by email and do not create one.
LookupKinds == {"team", "balance", "claim", "deposit", "history"}

\* Request q has passed validation and names a user that table does not
\* hold: an email without a record, or, for an inviter lookup, a code that
\* no record has.
Unknown(table, q) ==
    IF q.kind = "inviter"
    THEN /\ q.referralCode # NULL
         /\ \A u \in SeqToSet(table) : u.referral_code # q.referralCode
    ELSE /\ q.kind \in LookupKinds
         /\ q.email # NoEmail
         /\ ~(q.kind = "deposit" /\ q.amount = 0)
         /\ UsersOf(table, q.email) = {}

NotFoundErrors == {"User not found", "Inviter not found"}

\* The step that answers a request naming an unknown user answers 404 (or
\* 500 when the lookup itself failed) and writes nothing; no handler goes
\* past its lookup with an unknown user; only register and
\* get-or-create-referral add a user.
NotFoundStep ==
    /\ Unknown(users, out'.req) =>
          /\ out'.status = 404 \/ out'.error = "Server error"
          /\ out'.status = 404 =>
                out'.error = IF out'.req.kind = "inviter"
                             THEN "Inviter not found" ELSE "User not found"
          /\ ~Success(out')
          /\ UNCHANGED <<users, deposits, earnings>>
    /\ \A r \in Slots :
          (req[r].pc = "idle" /\ req'[r].pc # "idle") =>
              ~Unknown(users, req'[r])
    /\ Len(users') # Len(users) =>
          \E r \in Slots :
              /\ req[r].kind \in {"referral", "register"}
              /\ req[r].pc = "create"
              /\ req'[r].pc = "idle"

\* C11: a team, balance, claim, deposit or earnings-history request naming
\* an email that has no user record, and an inviter lookup naming a code
\* that no user has, is answered with a not-found error, never a success
\* result, and leaves users, deposits and referral_earnings unchanged; none
\* of these requests creates a user.
C11_UnknownIsNotFound ==
    /\ [](out.error \in NotFoundErrors =>
             out.status = 404 /\ Unknown(users, out.req))
    /\ [][NotFoundStep]_vars

\* A deposit for an email without a record was answered not-found on a
\* store that holds other users.
C11_Witness ==
    /\ out.req.kind = "deposit" /\ out.status = 404
    /\ out.req.amount = 100
    /\ users # <<>>
    /\ UsersOf(users, out.req.email) = {}

----------------------------------------------------------------------------
(* Deposit amounts                                                         *)

\* C12: every persisted deposit has a strictly positive amount, a deposit
\* request with a zero, missing or negative amount creating no deposit row
\* and no earning row; so no earning row has a negative amount.  (Refuted:
\* the handler rejects only a missing or zero amount.)
C12_DepositsPositive ==
    /\ \A i \in 1..Len(deposits) : deposits[i].amount > 0
    /\ \A i \in 1..Len(earnings) : earnings[i].amount >= 0

----------------------------------------------------------------------------
(* Referral codes for every digest                                         *)

\* The get-or-create handler, which derives the code of every email it
\* creates a user for, run under every digest drawn for a and b.
CodeDigests ==
    {[PlainDigest EXCEPT ![<<"a">>] = x, ![<<"b">>] = y] :
        x \in DigestValues, y \in DigestValues}

CodeInit ==
    /\ digest \in CodeDigests
    /\ users = <<>> /\ deposits = <<>> /\ earnings = <<>> /\ credited = <<>>
    /\ req = [s \in Slots |-> Idle]
    /\ nreq = 0
    /\ out = NoOut

CodeNext ==
    \E r \in Slots :
        \/ ReferralStart(r) \/ ReferralCreate(r)
        \/ StoreError(r)

CodeSpec == CodeInit /\ [][CodeNext]_vars

\* Spellings of the emails a and b.
Spellings ==
    {<<"a">>, <<"A">>, <<" ", "A">>, <<"A", " ">>, <<" ", "a", " ">>,
     <<"b">>, <<"B">>, <<"B", " ">>}

\* An email without its spaces, its letters in lower case.
Folded(email) == toLowerCase(SelectSeq(email, LAMBDA ch : ch # " "))

CodeRange == 100000..999999

\* C13: for every 32-bit value of the digest prefix the referral code is an
\* integer in [100000, 999999], and it is a function of the lowercased,
\* trimmed email only: emails that differ only in letter case or
\* surrounding whitespace get the same code, and every generation for one
\* email gives the same code.
C13_CodeOfEmail ==
    /\ \A e \in Spellings : generateReferralCode(e) \in CodeRange
    /\ \A e1, e2 \in Spellings :
          Folded(e1) = Folded(e2) =>
              generateReferralCode(e1) = generateReferralCode(e2)
    /\ \A i \in 1..Len(users) :
          /\ users[i].referral_code \in CodeRange
          /\ \A e \in Spellings :
                Folded(e) = users[i].email =>
                    users[i].referral_code = generateReferralCode(e)
    /\ (out.req.kind = "referral" /\ Success(out)) =>
          /\ out.data.referralCode \in CodeRange
          /\ \A u \in UsersOf(users, out.req.email) :
                u.referral_code = out.data.referralCode

\* Two records were created for the email a, whose digest prefix is
\* 2^32 - 1, the second by a request that spelled it " A".
C13_Witness ==
    /\ digest[<<"a">>] = [hi |-> 65535, lo |-> 65535]
    /\ Len(users) = 2
    /\ users[1].email = <<"a">> /\ users[2].email = <<"a">>
    /\ out.req.email = <<" ", "A">> /\ Success(out)
    /\ out.data.referralCode = 267295

----------------------------------------------------------------------------
(* Traversals of the referral graph                                        *)

\* The order in which the emails register in the tables drawn below.
RegOrder == <<<<"a">>, <<"c">>, <<"d">>, <<"b">>>>

RECURSIVE RegisteredTables(_)
\* The users tables that the first n registrations of RegOrder, or fewer,
\* leave: each email registers without a code or under the code of a user
\* already there.
RegisteredTables(n) ==
    IF n = 0 THEN {<<>>}
    ELSE LET smaller == RegisteredTables(n - 1)
             longest == {t \in smaller : Len(t) = n - 1}
         IN  smaller \cup
             UNION {{Registered(t, RegOrder[n], code) :
                        code \in {NULL} \cup
                                 {u.referral_code : u \in SeqToSet(t)}} :
                    t \in longest}

\* a; c and b referred by a; d referred by c and e referred by b.
TwoByTwoTable ==
    LET u1 == Registered(<<>>, <<"a">>, NULL)
        u2 == Registered(u1, <<"c">>, generateReferralCode(<<"a">>))
        u3 == Registered(u2, <<"b">>, generateReferralCode(<<"a">>))
        u4 == Registered(u3, <<"d">>, generateReferralCode(<<"c">>))
    IN  Registered(u4, <<"e">>, generateReferralCode(<<"b">>))

\* The tables the traversals are run on: those registrations leave, under
\* distinct and under colliding codes, and one with two records of a.
Tables ==
    RegisteredTables(Len(RegOrder)) \cup {TwoByTwoTable}
        \cup {s.users : s \in TwinStores}

\* Handler r runs while no other request is in flight.
OneAtATime(r) == \A s \in Slots \ {r} : req[s].pc = "idle"

\* Deposits and team requests, one at a time, on each of these tables; no
\* user is added.
TableInit ==
    /\ digest \in Digests
    /\ users \in Tables
    /\ deposits = <<>> /\ earnings = <<>> /\ credited = <<>>
    /\ req = [s \in Slots |-> Idle]
    /\ nreq = 0
    /\ out = NoOut

TableNext ==
    \E r \in Slots :
        /\ OneAtATime(r)
        /\ \/ DepositStart(r) \/ DepositInsert(r)
           \/ DepositChain(r) \/ DepositEarn(r)
           \/ Team(r)
           \/ StoreError(r)

TableSpec == TableInit /\ [][TableNext]_vars

\* No two user records have the same referral code.
UniqueCodes(table) ==
    \A i, j \in 1..Len(table) :
        table[i].referral_code = table[j].referral_code => i = j

\* No user is its own ancestor.
Acyclic(table) ==
    \A i \in 1..Len(table) : i \notin Ancestors(table, {i}, Len(table))

RECURSIVE AncestorsAt(_, _, _)
\* The users at distance k from user i along referral edges.
AncestorsAt(table, i, k) ==
    IF k = 0 THEN {i}
    ELSE {j \in 1..Len(table) :
             \E m \in AncestorsAt(table, i, k - 1) : Refers(table, m, j)}

\* The ancestors of i at distances 1, 2, 3 that exist, nearest first, each
\* with its distance; defined where each distance has at most one.
ChainOfAncestors(table, i) ==
    LET n == Cardinality({k \in 1..3 : AncestorsAt(table, i, k) # {}})
    IN  [k \in 1..n |->
            [user  |-> CHOOSE j \in AncestorsAt(table, i, k) : TRUE,
             level |-> k]]

\* C14: on a users table with unique referral codes and an acyclic
\* referral graph, getReferrerChain(u, 3) returns exactly the ancestors of
\* u at distances 1, 2 and 3 that exist, nearest first, each with level
\* equal to its distance, and the empty sequence when u has no referrer;
\* the chain a deposit walks is that one.
C14_ChainIsAncestors ==
    (UniqueCodes(users) /\ Acyclic(users)) =>
        /\ \A u \in 1..Len(users) :
              /\ getReferrerChain(users, u, 3) = {ChainOfAncestors(users, u)}
              /\ users[u].referred_by_code = NULL =>
                    getReferrerChain(users, u, 3) = {<<>>}
        /\ \A r \in Slots :
              (req[r].kind = "deposit" /\ req[r].pc = "earn") =>
                  req[r].chain = ChainOfAncestors(users, req[r].user)
        /\ (out.req.kind = "deposit" /\ Success(out)) =>
              out.req.chain = ChainOfAncestors(users, out.req.user)

\* b (user 4) is referred by d (user 3), who is referred by c (user 2),
\* who has no referrer: a deposit of b has walked the chain
\* [(d, 1), (c, 2)], and c's chain is empty.
C14_Witness ==
    /\ UniqueCodes(users) /\ Acyclic(users)
    /\ Len(users) = 4
    /\ Refers(users, 4, 3) /\ Refers(users, 3, 2)
    /\ users[2].referred_by_code = NULL
    /\ out.req.kind = "deposit" /\ Success(out) /\ out.req.user = 4
    /\ out.req.chain = <<[user |-> 3, level |-> 1], [user |-> 2, level |-> 2]>>
    /\ getReferrerChain(users, 2, 3) = {<<>>}

\* chain has at most maxLevel entries, entry k at level k.
BoundedChain(chain, maxLevel) ==
    /\ Len(chain) <= maxLevel
    /\ \A k \in 1..Len(chain) : chain[k].level = k

\* The earning rows of each deposit: at most three, at levels 1, 2, 3, one
\* per level.
FewRowsPerDeposit ==
    \A d \in 1..Len(deposits) :
        LET rows == {e \in SeqToSet(earnings) : e.deposit_id = d}
        IN  /\ Cardinality(rows) <= 3
            /\ \A e \in rows : e.level \in {1, 2, 3}
            /\ \A e1, e2 \in rows : e1.level = e2.level => e1 = e2

\* A walk in progress has made Len(chain) lookups, fewer than maxLevel,
\* and every lookup either adds one entry or ends the walk.
BoundedWalk ==
    \A r \in Slots :
        req[r].kind = "deposit" =>
            /\ BoundedChain(req[r].chain, MaxLevel)
            /\ req[r].pc = "chain" => Len(req[r].chain) < MaxLevel

LookupStep ==
    \A r \in Slots :
        (req[r].pc = "chain" /\ req'[r] # req[r]) =>
            \/ req'[r].pc # "chain"
            \/ Len(req'[r].chain) = Len(req[r].chain) + 1

\* C15: on every users table, also one whose referral edges form a cycle
\* or a self-loop, getReferrerChain(u, maxLevel) ends after at most
\* maxLevel lookups and returns at most maxLevel entries, at levels 1, 2,
\* ..., k in that order; so one deposit creates at most 3 earning rows,
\* at levels from {1, 2, 3}.
C15_ChainBounded ==
    /\ [](/\ \A u \in 1..Len(users), maxLevel \in 1..MaxLevel :
                \A chain \in getReferrerChain(users, u, maxLevel) :
                    BoundedChain(chain, maxLevel)
          /\ BoundedWalk
          /\ (out.req.kind = "deposit" /\ Success(out)) =>
                BoundedChain(out.req.chain, MaxLevel)
          /\ FewRowsPerDeposit)
    /\ [][LookupStep]_vars

\* On a table with a cycle a deposit has walked round it: three entries,
\* the first user again at level 3, and three earning rows.
C15_Witness ==
    /\ ~Acyclic(users)
    /\ out.req.kind = "deposit" /\ Success(out)
    /\ Len(out.req.chain) = 3
    /\ out.req.chain[1].user = out.req.chain[3].user
    /\ out.req.chain[1].user # out.req.chain[2].user
    /\ Cardinality({e \in SeqToSet(earnings) :
                       e.deposit_id = out.req.depositId}) = 3

----------------------------------------------------------------------------
(* The life of an earning row                                              *)

\* claimed_at is set exactly on the claimed rows.
ClaimedAtIffClaimed ==
    \A i \in 1..Len(earnings) :
        /\ earnings[i].status \in {"pending", "claimed"}
        /\ earnings[i].claimed_at # NULL <=> earnings[i].status = "claimed"

\* Handler r runs the status UPDATE of a claim for user i in this step.
MarksNow(r, i) ==
    /\ req[r].kind = "claim" /\ req[r].pc = "mark" /\ req[r].user = i
    /\ req'[r].pc = "credit"

\* No row is removed; a row changes only in status and claimed_at, only
\* from pending to claimed, only in the status UPDATE of a claim for its
\* own referrer; a claimed row does not change at all.
EarningStep ==
    /\ Len(earnings') >= Len(earnings)
    /\ \A i \in 1..Len(earnings) :
          /\ earnings'[i] =
                [earnings[i] EXCEPT !.status = earnings'[i].status,
                                    !.claimed_at = earnings'[i].claimed_at]
          /\ earnings[i].status = "claimed" => earnings'[i] = earnings[i]
          /\ earnings'[i] # earnings[i] =>
                /\ earnings[i].status = "pending"
                /\ earnings'[i].status = "claimed"
                /\ \E r \in Slots : MarksNow(r, earnings[i].referrer_id)

\* C16: an earning row, once created, is never deleted and keeps all its
\* fields other than status and claimedAt; its status only changes from
\* pending to claimed; in every state claimedAt is set if and only if the
\* status is claimed; only a claim for the row's own referrer changes its
\* status.
C16_EarningLifecycle ==
    /\ []ClaimedAtIffClaimed
    /\ [][EarningStep]_vars

\* A claim has marked its user's row while another referrer's row of the
\* same deposit is still pending.
C16_Witness ==
    \E i, j \in 1..Len(earnings) :
        /\ earnings[i].status = "claimed" /\ earnings[i].claimed_at # NULL
        /\ earnings[j].status = "pending"
        /\ earnings[i].deposit_id = earnings[j].deposit_id
        /\ earnings[i].referrer_id # earnings[j].referrer_id

----------------------------------------------------------------------------
(* Teams                                                                   *)

\* The ids of the rows of a query result.
IdsOf(rows) == {rows[k].id : k \in 1..Len(rows)}

\* The users directly referred by a user of members.
ReferredByAny(table, members) ==
    {v \in 1..Len(table) : \E m \in members : Refers(table, v, m)}

\* level lists exactly the users of members, each once.
ListsOnce(level, members) ==
    /\ IdsOf(level) = members
    /\ Len(level) = Cardinality(members)

\* getTeamByLevel(u) lists the users referred by u, by those, and by
\* those again.
TeamIsDescendants(table, u) ==
    LET team == getTeamByLevel(table, u)
        d1   == ReferredByAny(table, {u})
        d2   == ReferredByAny(table, d1)
        d3   == ReferredByAny(table, d2)
    IN  /\ ListsOnce(team.level1, d1)
        /\ ListsOnce(team.level2, d2)
        /\ ListsOnce(team.level3, d3)

\* C17: on a users table with unique referral codes getTeamByLevel(u)
\* returns as level1 exactly the users whose referredByCode is u's code,
\* as level2 exactly the users directly referred by a level1 member, as
\* level3 exactly those directly referred by a level2 member, each listed
\* once; the team endpoint's totalTeam is the sum of the three counts.
C17_TeamByLevel ==
    /\ UniqueCodes(users) =>
          \A u \in 1..Len(users) : TeamIsDescendants(users, u)
    /\ (out.req.kind = "team" /\ Success(out)) =>
          LET team == getTeamByLevel(users, out.req.user)
          IN  /\ out.data.level1 = Len(team.level1)
              /\ out.data.level2 = Len(team.level2)
              /\ out.data.level3 = Len(team.level3)
              /\ out.data.totalTeam =
                    out.data.level1 + out.data.level2 + out.data.level3

\* The team of a user with 2 direct referrals, each with 1 further
\* referral, was answered: counts 2, 2, 0 and totalTeam 4.
C17_Witness ==
    /\ users = TwoByTwoTable /\ UniqueCodes(users)
    /\ out.req.kind = "team" /\ Success(out) /\ out.req.user = 1
    /\ out.data.level1 = 2 /\ out.data.level2 = 2 /\ out.data.level3 = 0
    /\ out.data.totalTeam = 4

----------------------------------------------------------------------------
(* Requests one at a time                                                  *)

\* The stores that requests run one after the other leave.
SequentialStores == {EmptyStore, ChainStore}

SeqInit ==
    /\ digest \in Digests
    /\ \E store \in SequentialStores :
          /\ users = store.users
          /\ deposits = store.deposits
          /\ earnings = store.earnings
          /\ credited = Zeros(store.earnings)
    /\ req = [s \in Slots |-> Idle]
    /\ nreq = 0
    /\ out = NoOut

\* A query (not a write) of handler r fails.
ReadError(r) ==
    /\ req[r].pc \in {"findref", "sum", "reread", "chain"}
    /\ StoreError(r)

\* Each request runs to its end before the next is accepted, and no write
\* fails.
SeqNext ==
    \E r \in Slots :
        /\ OneAtATime(r)
        /\ \/ ReferralStart(r) \/ ReferralCreate(r)
           \/ RegisterStart(r) \/ RegisterFindReferrer(r) \/ RegisterCreate(r)
           \/ ClaimStart(r) \/ ClaimSum(r) \/ ClaimMark(r)
           \/ ClaimCredit(r) \/ ClaimReread(r)
           \/ DepositStart(r) \/ DepositInsert(r)
           \/ DepositChain(r) \/ DepositEarn(r)
           \/ Balance(r) \/ Team(r) \/ Inviter(r) \/ History(r)
           \/ Health(r)
           \/ ReadError(r)

SeqSpec == SeqInit /\ [][SeqNext]_vars

\* No request is in flight.
Quiet == \A r \in Slots : req[r].pc = "idle"

\* C18: when requests run one at a time and no write fails, after every
\* request each user's balance equals the sum of the amounts of that
\* user's claimed earning rows.
C18_BalanceIsClaimedSum ==
    Quiet =>
        \A u \in 1..Len(users) :
            users[u].balance = SumEarnings(earnings, u, "claimed")

\* After a claim and a later deposit a user has a positive balance and a
\* pending row.
C18_Witness ==
    /\ Quiet
    /\ \E u \in 1..Len(users) :
          /\ users[u].balance > 0
          /\ EarningRows(earnings, u, "claimed") # {}
          /\ EarningRows(earnings, u, "pending") # {}

----------------------------------------------------------------------------
(* A deposit during a claim                                                *)

\* Requests interleave and no statement that a handler awaits after its
\* lookup fails.
RaceNext ==
    \E r \in Slots :
        \/ ReferralStart(r) \/ ReferralCreate(r)
        \/ RegisterStart(r) \/ RegisterFindReferrer(r) \/ RegisterCreate(r)
        \/ ClaimStart(r) \/ ClaimSum(r) \/ ClaimMark(r)
        \/ ClaimCredit(r) \/ ClaimReread(r)
        \/ DepositStart(r) \/ DepositInsert(r)
        \/ DepositChain(r) \/ DepositEarn(r)
        \/ Balance(r) \/ Team(r) \/ Inviter(r) \/ History(r)
        \/ Health(r)

RaceSpec == Init /\ [][RaceNext]_vars

\* C19: when a deposit that accrues commission for referrer R runs
\* concurrently with a claim by R, no earning row is marked claimed without
\* its amount being in the sum credited to R's balance: a claimed row was
\* credited, or the claim that summed it is about to credit it.  (Refuted:
\* the status UPDATE also marks a row inserted after the sum was read.)
C19_NoLostEarning ==
    \A i \in 1..Len(earnings) :
        (earnings[i].status = "claimed" /\ credited[i] = 0) =>
            \E r \in Claims : req[r].pc = "credit" /\ i \in req[r].readRows

----------------------------------------------------------------------------
(* Upward and downward traversal                                           *)

\* The ids getTeamByLevel(a) lists at level k.
TeamLevel(table, a, k) ==
    LET team == getTeamByLevel(table, a)
    IN  IdsOf(CASE k = 1 -> team.level1
                [] k = 2 -> team.level2
                [] k = 3 -> team.level3)

\* getReferrerChain(u) has a at level k.
InChainAt(table, u, a, k) ==
    \E chain \in getReferrerChain(table, u, 3) :
        k <= Len(chain) /\ chain[k].user = a /\ chain[k].level = k

\* Every earning row is a row for a member of its referrer's team, at the
\* row's level; a deposit answered has such a row for every user whose
\* team lists the depositor.
EarnFromTeam ==
    /\ \A i \in 1..Len(earnings) :
          earnings[i].referred_user_id
              \in TeamLevel(users, earnings[i].referrer_id, earnings[i].level)
    /\ (out.req.kind = "deposit" /\ Success(out)) =>
          \A a \in 1..Len(users), k \in 1..3 :
              out.req.user \in TeamLevel(users, a, k) =>
                  \E e \in SeqToSet(earnings) :
                      /\ e.deposit_id = out.req.depositId
                      /\ e.referrer_id = a
                      /\ e.level = k

\* C20: on a users table with unique referral codes and an acyclic
\* referral graph, for all users a, u and every level k in {1, 2, 3}, u is
\* listed in level k of getTeamByLevel(a) if and only if
\* getReferrerChain(u) has a at level k; so a user earns a level-k
\* commission from exactly the deposits of the members in level k of
\* their team.
C20_TraversalsAgree ==
    (UniqueCodes(users) /\ Acyclic(users)) =>
        /\ \A a, u \in 1..Len(users), k \in 1..3 :
              u \in TeamLevel(users, a, k) <=> InChainAt(users, u, a, k)
        /\ EarnFromTeam

\* A deposit of b, three levels below c, has made c a level-3 row; b is in
\* level 3 of c's team.
C20_Witness ==
    /\ UniqueCodes(users) /\ Acyclic(users)
    /\ out.req.kind = "deposit" /\ Success(out)
    /\ Len(out.req.chain) = 3
    /\ out.req.user \in TeamLevel(users, out.req.chain[3].user, 3)
    /\ \E e \in SeqToSet(earnings) :
          /\ e.deposit_id = out.req.depositId
          /\ e.level = 3
          /\ e.referrer_id = out.req.chain[3].user

====
